---- MODULE Spec2Model ----
(***************************************************************************)
(* ElGamal over Z_p (package elgamal): domain parameter search (Gen),      *)
(* key generation (GenerateKey), Encrypt, Decrypt and the two homomorphic  *)
(* combinators, modelled on small moduli.                                  *)
(*                                                                         *)
(* big.Int values are unbounded integers.  Byte slices are sequences of    *)
(* 0..255 (big endian, no leading zero, the empty slice for 0).            *)
(***************************************************************************)
EXTENDS Integers, Sequences, FiniteSets

(***************************************************************************)
(* Bounds of the model.                                                    *)
(***************************************************************************)
\* bit sizes handed to GenerateKey are at most MaxBits
MaxBits == 4
\* the caller keeps at most MaxCts ciphertexts returned by Encrypt
MaxCts == 2
\* HommorphicEncMultiple is called with at most MaxList ciphertexts
MaxList == 2
\* the loop iteration counters of Gen are kept modulo IterMod
IterMod == 2

\* the bit sizes handed to GenerateKey; at 2, rand.Prime is asked for a 1-bit prime
\* and returns an error
BitSizes == 2..MaxBits

(***************************************************************************)
(* math/big and crypto/rand, as the calls in the source use them.          *)
(***************************************************************************)
RECURSIVE Pow(_, _)
Pow(x, y) == IF y = 0 THEN 1 ELSE x * Pow(x, y - 1)

\* new(big.Int).Exp(x, y, m) for y >= 0 and m > 0: x^y mod m
RECURSIVE Exp(_, _, _)
Exp(x, y, m) == IF y = 0 THEN 1 % m ELSE (x * Exp(x, y - 1, m)) % m

\* z.ModInverse(s, p): the inverse of s modulo p, Nil when s and p are not
\* relatively prime (the method returns nil)
Nil == -1
ModInverseZeroForNil(s, m) ==
    IF \E t \in 1..(m - 1) : (s * t) % m = 1
    THEN CHOOSE t \in 1..(m - 1) : (s * t) % m = 1
    ELSE 0
ModInverse(s, m) ==
    IF \E t \in 1..(m - 1) : (s * t) % m = 1
    THEN CHOOSE t \in 1..(m - 1) : (s * t) % m = 1
    ELSE Nil

\* x.ProbablyPrime(n): exact for values below 2^64 (Baillie-PSW), whatever n >= 0
ProbablyPrime(x) == x >= 2 /\ \A d \in 2..(x - 1) : x % d # 0

\* rand.Prime(rand.Reader, bits), bits >= 2: a prime of exactly `bits` bits whose
\* two most significant bits and whose least significant bit are set
PrimeCandidates(bits) ==
    { c \in (3 * Pow(2, bits - 2))..(Pow(2, bits) - 1) : c % 2 = 1 /\ ProbablyPrime(c) }

\* rand.Int(rand.Reader, max) and (*big.Int).Rand(rnd, max): uniform in [0, max)
RandBelow(max) == 0..(max - 1)

\* x.Bytes(): big-endian bytes of x, no leading zero byte, empty for 0
RECURSIVE Bytes(_)
Bytes(x) == IF x = 0 THEN << >> ELSE Append(Bytes(x \div 256), x % 256)

\* z.SetBytes(b): the big-endian unsigned integer in b
RECURSIVE SetBytes(_)
SetBytes(b) ==
    IF Len(b) = 0 THEN 0
    ELSE 256 * SetBytes(SubSeq(b, 1, Len(b) - 1)) + b[Len(b)]

\* x.Cmp(y)
Cmp(x, y) == IF x < y THEN -1 ELSE IF x = y THEN 0 ELSE 1

(***************************************************************************)
(* State.                                                                  *)
(***************************************************************************)
VARIABLES
    pc,     \* where the GenerateKey call stands
    n,      \* Gen's bit size argument
    q, p, g,\* Gen's locals
    iter,   \* iterations of Gen's loops so far, modulo IterMod
    key,    \* the PrivateKey returned by GenerateKey
    pool,   \* ciphertexts the caller holds, each with the message it encrypts
    res     \* what the last call of Encrypt/Decrypt/Homomorphic* returned

vars == <<pc, n, q, p, g, iter, key, pool, res>>

NoKey == [G |-> 0, P |-> 0, Y |-> 0, X |-> 0]
NoRes == [op |-> "none", err |-> "nil", out |-> << >>, args |-> << >>, from |-> "none",
          cnt |-> 0, big |-> FALSE, genuine |-> FALSE, pt |-> Nil]

Init ==
    /\ pc = "idle"
    /\ n = 0
    /\ q = 0
    /\ p = 0
    /\ g = 0
    /\ iter = 0
    /\ key = NoKey
    /\ pool = {}
    /\ res = NoRes

(***************************************************************************)
(* Gen: the search for p = 2q + 1 and g.                                   *)
(***************************************************************************)
\* the test without the rejection of g^2 = 1
GenAcceptsNoSquareTest(cand, qq, pp) == Cmp(Exp(cand, qq, pp), 1) = 0
\* the test of one candidate g in Gen's inner loop
GenAccepts(cand, qq, pp) ==
    /\ Cmp(Exp(cand, 2, pp), 1) # 0
    /\ Cmp(Exp(cand, qq, pp), 1) = 0

\* GenerateKey(bitsize, probability) is called and enters GeneratePQZp / Gen
GenerateKey(bitsize) ==
    /\ pc = "idle"
    /\ n' = bitsize
    /\ pc' = "outer"
    /\ UNCHANGED <<q, p, g, iter, key, pool, res>>

\* one iteration of Gen's outer loop: draw q, test p = 2q + 1
GenOuter ==
    /\ pc = "outer"
    /\ \/ /\ n - 1 < 2                  \* rand.Prime: prime size must be at least 2-bit
          /\ pc' = "failed"
          /\ UNCHANGED <<q, p, iter>>
       \/ /\ n - 1 >= 2                 \* the random source fails
          /\ pc' = "failed"
          /\ UNCHANGED <<q, p, iter>>
       \/ /\ n - 1 >= 2
          /\ \E c \in PrimeCandidates(n - 1) :
                /\ q' = c
                /\ p' = c * 2 + 1
                /\ pc' = IF ProbablyPrime(c * 2 + 1) THEN "inner" ELSE "outer"
          /\ iter' = (iter + 1) % IterMod
    /\ UNCHANGED <<n, g, key, pool, res>>

\* one iteration of Gen's inner loop: draw g, test it
GenInner ==
    /\ pc = "inner"
    /\ \/ /\ pc' = "failed"             \* the random source fails
          /\ UNCHANGED <<g, iter>>
       \/ \E cand \in RandBelow(p) :
             /\ g' = cand
             /\ pc' = IF GenAccepts(cand, q, p) THEN "params" ELSE "inner"
             /\ iter' = IF GenAccepts(cand, q, p) THEN 0 ELSE (iter + 1) % IterMod
    /\ UNCHANGED <<n, q, p, key, pool, res>>

\* GenerateKey after GeneratePQZp returned p, q, g: draw x, build the key
GenerateKeyFinish ==
    /\ pc = "params"
    /\ \E x \in RandBelow(q - 1) :
          key' = [G |-> g, P |-> p, Y |-> Exp(g, x, p), X |-> x]
    /\ pc' = "ready"
    /\ UNCHANGED <<n, q, p, g, iter, pool, res>>

(***************************************************************************)
(* Encrypt, Decrypt, HomomorphicEncTwo, HommorphicEncMultiple as functions *)
(* of their arguments and of the random draw.                              *)
(***************************************************************************)
\* a nil []byte return value
NilSlice == << Nil >>
\* the draw of rand.Int when the random source returns an error
RandErr == -2

\* pub.Encrypt(message) when rand.Int draws k
Encrypt(pub, message, k) ==
    LET m  == SetBytes(message)
        c1 == Exp(pub.G, k, pub.P)
        s  == Exp(pub.Y, k, pub.P)
        c2 == (m * s) % pub.P
    IN  IF k = RandErr
        THEN [c1 |-> NilSlice, c2 |-> NilSlice, err |-> "rand"]
        ELSE IF Cmp(m, pub.P) = 1
        THEN [c1 |-> NilSlice, c2 |-> NilSlice, err |-> "ErrMessageLarge"]
        ELSE [c1 |-> Bytes(c1), c2 |-> Bytes(c2), err |-> "nil"]

\* Decrypt multiplying by s instead of its inverse
DecryptNoInverse(priv, cipher1, cipher2) ==
    LET c1 == SetBytes(cipher1)
        c2 == SetBytes(cipher2)
        s  == Exp(c1, priv.X, priv.P)
    IN  IF Cmp(c1, priv.P) = 1 /\ Cmp(c2, priv.P) = 1
        THEN [m |-> NilSlice, err |-> "ErrCipherLarge"]
        ELSE IF ModInverse(s, priv.P) = Nil
        THEN [m |-> NilSlice, err |-> "invalid private key"]
        ELSE [m |-> Bytes((s * c2) % priv.P), err |-> "nil"]

\* priv.Decrypt(cipher1, cipher2)
Decrypt(priv, cipher1, cipher2) ==
    LET c1   == SetBytes(cipher1)
        c2   == SetBytes(cipher2)
        s    == Exp(c1, priv.X, priv.P)
        sinv == ModInverse(s, priv.P)
    IN  IF Cmp(c1, priv.P) = 1 /\ Cmp(c2, priv.P) = 1
        THEN [m |-> NilSlice, err |-> "ErrCipherLarge"]
        ELSE IF sinv = Nil
        THEN [m |-> NilSlice, err |-> "invalid private key"]
        ELSE [m |-> Bytes((sinv * c2) % priv.P), err |-> "nil"]

\* HomomorphicEncTwo adding the second components instead of multiplying them
HomomorphicEncTwoAdds(pub, c1, c2, c1dash, c2dash) ==
    LET cipher1     == SetBytes(c1)
        cipher2     == SetBytes(c2)
        cipher1dash == SetBytes(c1dash)
        cipher2dash == SetBytes(c2dash)
    IN  IF Cmp(cipher1, pub.P) = 1 /\ Cmp(cipher2, pub.P) = 1
        THEN [c1 |-> NilSlice, c2 |-> NilSlice, err |-> "ErrCipherLarge"]
        ELSE IF Cmp(cipher1dash, pub.P) = 1 /\ Cmp(cipher2dash, pub.P) = 1
        THEN [c1 |-> NilSlice, c2 |-> NilSlice, err |-> "ErrCipherLarge"]
        ELSE [c1 |-> Bytes((cipher1 * cipher1dash) % pub.P),
              c2 |-> Bytes((cipher2 + cipher2dash) % pub.P),
              err |-> "nil"]

\* pub.HomomorphicEncTwo(c1, c2, c1dash, c2dash)
HomomorphicEncTwo(pub, c1, c2, c1dash, c2dash) ==
    LET cipher1     == SetBytes(c1)
        cipher2     == SetBytes(c2)
        cipher1dash == SetBytes(c1dash)
        cipher2dash == SetBytes(c2dash)
    IN  IF Cmp(cipher1, pub.P) = 1 /\ Cmp(cipher2, pub.P) = 1
        THEN [c1 |-> NilSlice, c2 |-> NilSlice, err |-> "ErrCipherLarge"]
        ELSE IF Cmp(cipher1dash, pub.P) = 1 /\ Cmp(cipher2dash, pub.P) = 1
        THEN [c1 |-> NilSlice, c2 |-> NilSlice, err |-> "ErrCipherLarge"]
        ELSE [c1 |-> Bytes((cipher1 * cipher1dash) % pub.P),
              c2 |-> Bytes((cipher2 * cipher2dash) % pub.P),
              err |-> "nil"]

\* the loop with C1 overwritten by c1 instead of multiplied by it
RECURSIVE EncMultipleLoopOverwrites(_, _, _, _, _)
EncMultipleLoopOverwrites(pub, ciphertext, i, C1, C2) ==
    IF i > Len(ciphertext)
    THEN [c1 |-> Bytes(C1), c2 |-> Bytes(C2), err |-> "nil"]
    ELSE LET c1 == SetBytes(ciphertext[i][1])
             c2 == SetBytes(ciphertext[i][2])
         IN  IF Cmp(c1, pub.P) = 1 /\ Cmp(c2, pub.P) = 1
             THEN [c1 |-> NilSlice, c2 |-> NilSlice, err |-> "ErrCipherLarge"]
             ELSE EncMultipleLoopOverwrites(pub, ciphertext, i + 1,
                                            c1 % pub.P, (C2 * c2) % pub.P)

\* the loop of HommorphicEncMultiple from index i (1-based) with accumulators C1, C2
RECURSIVE EncMultipleLoop(_, _, _, _, _)
EncMultipleLoop(pub, ciphertext, i, C1, C2) ==
    IF i > Len(ciphertext)
    THEN [c1 |-> Bytes(C1), c2 |-> Bytes(C2), err |-> "nil"]
    ELSE LET c1 == SetBytes(ciphertext[i][1])
             c2 == SetBytes(ciphertext[i][2])
         IN  IF Cmp(c1, pub.P) = 1 /\ Cmp(c2, pub.P) = 1
             THEN [c1 |-> NilSlice, c2 |-> NilSlice, err |-> "ErrCipherLarge"]
             ELSE EncMultipleLoop(pub, ciphertext, i + 1,
                                  (C1 * c1) % pub.P, (C2 * c2) % pub.P)

\* pub.HommorphicEncMultiple(ciphertext)
HommorphicEncMultiple(pub, ciphertext) == EncMultipleLoop(pub, ciphertext, 1, 1, 1)

(***************************************************************************)
(* The calls a holder of the key makes.  The functions are pure: the only   *)
(* state between calls is what the caller carries from one to the next.    *)
(* The caller keeps the ciphertexts Encrypt returns (pool), hands them to a *)
(* combinator, which uses them up, and decrypts what the last call         *)
(* returned (res).  Ciphertexts of foreign origin are handled while the    *)
(* caller holds none of its own.  Each record of a call carries, beside    *)
(* the returned values, the integer arguments (args), whether a ciphertext *)
(* component was P or more (big), the number of ciphertexts combined (cnt) *)
(* and the message behind the ciphertext (pt, genuine).                    *)
(***************************************************************************)
PublicKey(priv) == [G |-> priv.G, P |-> priv.P, Y |-> priv.Y]

\* messages handed to Encrypt: 0..P+1, a two-byte value and one with a leading zero
Messages(P) == { Bytes(m) : m \in 0..(P + 1) } \cup { <<1, 0>>, <<0, 3>> }

\* ciphertexts of foreign origin handed to the combinators
ForeignCts(P) ==
    { <<Bytes(P + 1), Bytes(2)>>, <<Bytes(P + 1), Bytes(P + 1)>>, <<Bytes(P), Bytes(0)>> }

\* ciphertexts of foreign origin handed to Decrypt
RawCts(P) ==
    ForeignCts(P) \cup
    { <<Bytes(2), Bytes(P + 1)>>, <<Bytes(0), Bytes(2)>>, <<Bytes(P + 256), Bytes(P + 256)>> }

\* a ciphertext of foreign origin as an input of a combinator: no known message
Foreign == { [c1 |-> r[1], c2 |-> r[2], m |-> Nil] : r \in ForeignCts(key.P) }

\* every input is an Encrypt output for a message below P
Genuine(cts) == \A i \in 1..Len(cts) : cts[i].m # Nil /\ cts[i].m < key.P

\* some component of some input is P or more
Oversize(cts) ==
    \E i \in 1..Len(cts) : SetBytes(cts[i].c1) >= key.P \/ SetBytes(cts[i].c2) >= key.P

\* the product of the messages behind cts, modulo P
RECURSIVE ProductMod(_, _)
ProductMod(cts, P) ==
    IF Len(cts) = 0 THEN 1 % P
    ELSE (cts[1].m * ProductMod(Tail(cts), P)) % P

SeqsUpTo(S, k) == UNION { [1..j -> S] : j \in 0..k }

\* the record of a call of a combinator on cts that returned r
Combined(name, cts, r) ==
    [op |-> name, err |-> r.err, out |-> <<r.c1, r.c2>>, args |-> << >>,
     from |-> "none", cnt |-> Len(cts), big |-> Oversize(cts),
     genuine |-> Genuine(cts),
     pt |-> IF Genuine(cts) THEN ProductMod(cts, key.P) ELSE Nil]

\* Encrypt is called; the caller keeps the ciphertext it returns
DoEncrypt ==
    /\ pc = "ready"
    /\ Cardinality(pool) < MaxCts
    /\ \E message \in Messages(key.P), k \in RandBelow(key.P) \cup {RandErr} :
          LET r == Encrypt(PublicKey(key), message, k)
              m == SetBytes(message)
          IN  /\ res' = [op |-> "Encrypt", err |-> r.err, out |-> <<r.c1, r.c2>>,
                         args |-> <<m>>, from |-> "none", cnt |-> 1, big |-> FALSE,
                         genuine |-> (m < key.P), pt |-> m]
              /\ pool' = IF r.err = "nil"
                         THEN pool \cup {[c1 |-> r.c1, c2 |-> r.c2, m |-> m]}
                         ELSE pool
    /\ UNCHANGED <<pc, n, q, p, g, iter, key>>

\* Decrypt of the ciphertext the previous call returned
DoDecryptResult ==
    /\ pc = "ready"
    /\ res.op \in {"Encrypt", "HomomorphicEncTwo", "HommorphicEncMultiple"}
    /\ res.err = "nil"
    /\ LET r  == Decrypt(key, res.out[1], res.out[2])
           c1 == SetBytes(res.out[1])
           c2 == SetBytes(res.out[2])
       IN  res' = [op |-> "Decrypt", err |-> r.err, out |-> <<r.m>>,
                   args |-> <<c1, c2>>, from |-> res.op, cnt |-> res.cnt,
                   big |-> (c1 >= key.P \/ c2 >= key.P),
                   genuine |-> res.genuine, pt |-> res.pt]
    /\ UNCHANGED <<pc, n, q, p, g, iter, key, pool>>

\* Decrypt of a ciphertext of foreign origin
DoDecryptRaw ==
    /\ pc = "ready"
    /\ pool = {}
    /\ \E raw \in RawCts(key.P) :
          LET r  == Decrypt(key, raw[1], raw[2])
              c1 == SetBytes(raw[1])
              c2 == SetBytes(raw[2])
          IN  res' = [op |-> "Decrypt", err |-> r.err, out |-> <<r.m>>,
                      args |-> <<c1, c2>>, from |-> "raw", cnt |-> 1,
                      big |-> (c1 >= key.P \/ c2 >= key.P),
                      genuine |-> FALSE, pt |-> Nil]
    /\ UNCHANGED <<pc, n, q, p, g, iter, key, pool>>

\* HomomorphicEncTwo on two of the ciphertexts the caller holds, or on two foreign ones
TwoOn(S) ==
    \E a \in S, b \in S :
       res' = Combined("HomomorphicEncTwo", <<a, b>>,
                       HomomorphicEncTwo(PublicKey(key), a.c1, a.c2, b.c1, b.c2))

DoHomomorphicEncTwo ==
    /\ pc = "ready"
    /\ \/ TwoOn(pool)
       \/ pool = {} /\ TwoOn(Foreign)
    /\ pool' = {}
    /\ UNCHANGED <<pc, n, q, p, g, iter, key>>

\* HommorphicEncMultiple on a list of the ciphertexts the caller holds, in any order,
\* or on a list of foreign ones
MultipleOn(S) ==
    \E cts \in SeqsUpTo(S, MaxList) :
       res' = Combined("HommorphicEncMultiple", cts,
                       HommorphicEncMultiple(PublicKey(key),
                           [i \in 1..Len(cts) |-> <<cts[i].c1, cts[i].c2>>]))

DoHommorphicEncMultiple ==
    /\ pc = "ready"
    /\ \/ MultipleOn(pool)
       \/ pool = {} /\ MultipleOn(Foreign)
    /\ pool' = {}
    /\ UNCHANGED <<pc, n, q, p, g, iter, key>>

Next ==
    \/ \E bitsize \in BitSizes : GenerateKey(bitsize)
    \/ GenOuter
    \/ GenInner
    \/ GenerateKeyFinish
    \/ DoEncrypt
    \/ DoDecryptResult
    \/ DoDecryptRaw
    \/ DoHomomorphicEncTwo
    \/ DoHommorphicEncMultiple

Spec == Init /\ [][Next]_vars

\* the iterations of Gen's loops that leave the loop
GenOuterFinds == GenOuter /\ pc' = "inner"
GenInnerFinds == GenInner /\ pc' = "params"

\* Gen keeps running while it is in a loop, and a fair random source draws every
\* value again and again, so an iteration that leaves the loop happens if it stays
\* possible
LiveSpec ==
    /\ Spec
    /\ WF_vars(GenOuter) /\ WF_vars(GenInner)
    /\ WF_vars(GenOuterFinds) /\ WF_vars(GenInnerFinds)

(***************************************************************************)
(* Properties.                                                             *)
(***************************************************************************)
\* the multiplicative order of x modulo m, 0 when no power of x is 1
Order(x, m) ==
    IF \E k \in 1..m : Exp(x, k, m) = 1
    THEN CHOOSE k \in 1..m : Exp(x, k, m) = 1 /\ \A j \in 1..(k - 1) : Exp(x, j, m) # 1
    ELSE 0

Decrypted(origin) == res.op = "Decrypt" /\ res.from = origin /\ res.genuine

\* C1: Decrypt of what Encrypt returned for a message m < P, under any generated key
\* and any draw of k, succeeds and returns m.
RoundTrip ==
    Decrypted("Encrypt") => res.err = "nil" /\ SetBytes(res.out[1]) = res.pt

RoundTripWitness ==
    Decrypted("Encrypt") /\ res.pt > 1 /\ key.X > 0 /\ res.args[1] # 1

\* C2: Decrypt of HomomorphicEncTwo of two Encrypt outputs for messages below P
\* succeeds and returns the product of the two messages modulo P.
PairwiseHomomorphism ==
    Decrypted("HomomorphicEncTwo") => res.err = "nil" /\ SetBytes(res.out[1]) = res.pt

PairwiseHomomorphismWitness ==
    Decrypted("HomomorphicEncTwo") /\ res.pt > 1 /\ key.X > 0 /\ res.args[1] # 1

\* C3: Decrypt of HommorphicEncMultiple of a list of k >= 1 Encrypt outputs for
\* messages below P, taken in any order, returns the product of the messages modulo P.
NaryHomomorphism ==
    Decrypted("HommorphicEncMultiple") /\ res.cnt >= 1
        => res.err = "nil" /\ SetBytes(res.out[1]) = res.pt

NaryHomomorphismWitness ==
    /\ Decrypted("HommorphicEncMultiple")
    /\ res.cnt = MaxList
    /\ res.pt > 1
    /\ key.X > 0
    /\ res.args[1] # 1

\* C4: Encrypt, when the random source works, fails with ErrMessageLarge and returns
\* no ciphertext for every message m >= P.
EncryptRejectsFromP ==
    res.op = "Encrypt" /\ res.err # "rand" /\ res.args[1] >= key.P
        => res.err = "ErrMessageLarge" /\ res.out = <<NilSlice, NilSlice>>

\* C5: Decrypt and the two combinators fail with ErrCipherLarge whenever some
\* ciphertext component handed to them is P or more.
CipherRangeGuard ==
    res.op \in {"Decrypt", "HomomorphicEncTwo", "HommorphicEncMultiple"} /\ res.big
        => res.err = "ErrCipherLarge"

\* C6: the p, q, g that Gen returns satisfy p = 2q + 1, p prime, g^2 mod p # 1,
\* g^q mod p = 1, and g has order exactly q, so g is none of 0, 1, p - 1.
DomainParametersValid ==
    pc \in {"params", "ready"} =>
        /\ p = 2 * q + 1
        /\ ProbablyPrime(p)
        /\ Exp(g, 2, p) # 1
        /\ Exp(g, q, p) = 1
        /\ Order(g, p) = q
        /\ g \notin {0, 1, p - 1}

DomainParametersWitness == pc = "params" /\ g > 1 /\ q > 2

\* C7: the key GenerateKey returns has 1 <= X < q and Y = G^X mod P.
KeyPairValid ==
    pc = "ready" =>
        /\ 1 <= key.X
        /\ key.X < q
        /\ key.Y = Exp(key.G, key.X, key.P)

\* C8 as stated: with P prime and X # 0, a Decrypt whose input passes the size guard
\* never returns the invalid private key error.
InvalidKeyOnlyForBadKey ==
    res.op = "Decrypt" /\ ProbablyPrime(key.P) /\ key.X # 0 /\ res.err # "ErrCipherLarge"
        => res.err # "invalid private key"

\* C8 amended: with P prime, a Decrypt whose input passes the size guard returns the
\* invalid private key error exactly when X # 0 and c1 is a multiple of P.
InvalidKeyIffZeroSecret ==
    res.op = "Decrypt" /\ ProbablyPrime(key.P) /\ res.err # "ErrCipherLarge"
        => (res.err = "invalid private key" <=> (key.X # 0 /\ res.args[1] % key.P = 0))

InvalidKeyWitness ==
    /\ res.op = "Decrypt"
    /\ ProbablyPrime(key.P)
    /\ key.X # 0
    /\ res.args[1] = 0
    /\ res.err = "invalid private key"

\* C9: HommorphicEncMultiple called with no ciphertext does not return (1, 1) with a
\* nil error.
NoBareIdentity ==
    ~ ( /\ res.op = "HommorphicEncMultiple"
        /\ res.cnt = 0
        /\ res.err = "nil"
        /\ res.out = <<Bytes(1), Bytes(1)>> )

\* C10: with a random source that never fails and draws fairly, Gen(n) returns for
\* every n for which a prime of n - 1 bits exists.
GenTerminates ==
    (pc = "outer" /\ n - 1 >= 2) ~> (pc \notin {"outer", "inner"})
====
